---- MODULE Spec2Model ----
(***************************************************************************)
(* Hedge-planning arithmetic of the over25 trading tool (src/app.py,       *)
(* section "TRADING / STOP (manuale)") as a state machine, and the odds    *)
(* download get_odds_totals (src/live_odds.py).                            *)
(*                                                                         *)
(* Python floats are modelled as exact rationals [n |-> numerator,         *)
(* d |-> denominator] in lowest terms with d > 0, so that equalities of    *)
(* the source ("exactly -max_loss") are decided by the arithmetic and not  *)
(* by binary rounding.  Python's None is the record None, a raised         *)
(* ZeroDivisionError the record ZeroDivisionError, an unassigned local the *)
(* record Unbound.                                                         *)
(***************************************************************************)
EXTENDS Integers, Sequences, FiniteSets, TLC

VARIABLES
    form,      \* the values of the TAB 2 widgets (st.number_input)
    pc,        \* position of the CALCOLA handler / make_stop_plan
    comm,      \* make_stop_plan's local comm = comm_pct / 100
    plan,      \* make_stop_plan's list of rows
    frame,     \* make_stop_plan's loop locals after the last iteration
    args,      \* arguments of a direct call of one of the pure functions
    called,    \* which pure function was called (or "none")
    ret,       \* what the call returned
    live,      \* the "Uscita adesso" block of the CALCOLA handler
    fetch,     \* a call of get_odds_totals (src/live_odds.py)
    ui         \* TAB 1: the session state of the analysis and the page drawn

vars == <<form, pc, comm, plan, frame, args, called, ret, live, fetch, ui>>

(***************************************************************************)
(* Bounds of the model.                                                    *)
(***************************************************************************)
MaxBackStake == 2       \* back_stake in 1 .. MaxBackStake euro
MaxOddsK == 1           \* back_odds in {1.50, 1.70, ...}: 1.50 + 0.20 k
MaxCommK == 2           \* comm_pct in {0, 5, ...}: 5 k
MaxLossHalves == 4      \* max_loss_if_lose in {0, 0.5, ...}: k / 2
MaxProfitHalves == 2    \* min_profit_if_win in {0, 0.5, ...}: k / 2
MaxLayStakeHalves == 5  \* lay_stake_ of a direct call in {-0.5, 0, ...}: k / 2
MaxLayOddsK == 2        \* lay_odds_ of a direct call in {1.01, 1.51, ...}
MaxEvents == 2          \* events in a response of the odds API: 0 .. MaxEvents
MaxLeagues == 2         \* leagues selected for "Trova partite": 0 .. MaxLeagues
MaxCandidates == 2      \* fixtures short-listed by "Trova partite"
MaxAnalyses == 3        \* analyses completed in one session

(***************************************************************************)
(* Exact arithmetic standing for Python's float operators.                 *)
(***************************************************************************)
Abs(i) == IF i < 0 THEN -i ELSE i

RECURSIVE Gcd(_, _)
Gcd(a, b) == IF b = 0 THEN a ELSE Gcd(b, a % b)

\* n / d in lowest terms, d > 0
Rat(n, d) ==
    LET g == Gcd(Abs(n), Abs(d))
        sgn == IF d < 0 THEN -1 ELSE 1
    IN  [n |-> sgn * (n \div g), d |-> sgn * (d \div g)]

Num(i) == [n |-> i, d |-> 1]
Zero == Num(0)
One == Num(1)

IsNum(x) == DOMAIN x = {"n", "d"}

Lcm(a, b) == (a \div Gcd(a, b)) * b

RAdd(x, y) ==
    LET l == Lcm(x.d, y.d)
    IN  Rat(x.n * (l \div x.d) + y.n * (l \div y.d), l)

RNeg(x) == [n |-> -x.n, d |-> x.d]
RSub(x, y) == RAdd(x, RNeg(y))

RMul(x, y) ==
    LET g1 == Gcd(Abs(x.n), y.d)
        g2 == Gcd(Abs(y.n), x.d)
    IN  Rat((x.n \div g1) * (y.n \div g2), (x.d \div g2) * (y.d \div g1))

\* x / y for y # 0 (the callers test the divisor first, as Python raises)
RDiv(x, y) == RMul(x, Rat(y.d, y.n))

\* x < y: by the whole parts where they differ, else by the fractional
\* parts over the common denominator
RLt(x, y) ==
    LET fx == x.n \div x.d
        fy == y.n \div y.d
        l == Lcm(x.d, y.d)
    IN  IF fx # fy THEN fx < fy
        ELSE (x.n % x.d) * (l \div x.d) < (y.n % y.d) * (l \div y.d)
RLe(x, y) == ~RLt(y, x)
RMax(x, y) == IF RLt(x, y) THEN y ELSE x

\* the literal 1e-9 of lines 486, 525 and 542
EpsDen == 1000000000
Eps == [n |-> 1, d |-> EpsDen]

\* mutant: the divisor is not floored at 1e-9
MaxEpsMissing(x) == x

\* max(1e-9, x): x <= 1/EpsDen iff x.n * EpsDen <= x.d iff x.n <= floor(x.d / EpsDen)
MaxEps(x) == IF x.n <= x.d \div EpsDen THEN Eps ELSE x

\* x < y - 1e-9: over the common denominator l, with x = a/l and y = b/l,
\* this is (b - a) * EpsDen > l, i.e. b - a > floor(l / EpsDen)
LtMinusEps(x, y) ==
    LET l == Lcm(x.d, y.d)
    IN  y.n * (l \div y.d) - x.n * (l \div x.d) > l \div EpsDen

\* round-half-even of x to a whole number (Python's round and format both
\* round the exact value half to even)
RoundInt(x) ==
    LET f == x.n \div x.d
        r == x.n - f * x.d
    IN  IF 2 * r < x.d THEN f
        ELSE IF 2 * r > x.d THEN f + 1
        ELSE IF f % 2 = 0 THEN f ELSE f + 1

\* round(x, 2)
Round2(x) == Rat(RoundInt(RMul(x, Num(100))), 100)

\* f"{x:.2f} EUR": sign and hundredths of the rounded magnitude
Fmt2(x) ==
    [sign |-> IF x.n < 0 THEN "-" ELSE "",
     cents |-> RoundInt(RMul([n |-> Abs(x.n), d |-> x.d], Num(100)))]

\* f"{x:+.2f} EUR"
FmtSigned2(x) ==
    [sign |-> IF x.n < 0 THEN "-" ELSE "+",
     cents |-> RoundInt(RMul([n |-> Abs(x.n), d |-> x.d], Num(100)))]

None == [tag |-> "None"]
ZeroDivisionError == [tag |-> "ZeroDivisionError"]
Unbound == [tag |-> "unbound"]
\* the placeholder cell (an em dash in the source)
Dash == [text |-> "--"]

(***************************************************************************)
(* The pure functions of src/app.py, lines 455-491.                        *)
(***************************************************************************)
lay_liability(lay_stake, lay_odds) == RMul(lay_stake, RSub(lay_odds, One))

\* mutant: the commission is taken off a negative result too
pnl_if_win_commission_always(back_stake, back_odds, lay_stake, lay_odds, c) ==
    RMul(RSub(RMul(back_stake, RSub(back_odds, One)),
              lay_liability(lay_stake, lay_odds)),
         RSub(One, c))

\* mutant: the commission is taken as the percentage, not as the fraction
pnl_if_win_commission_in_percent(back_stake, back_odds, lay_stake, lay_odds, c) ==
    LET gross == RSub(RMul(back_stake, RSub(back_odds, One)),
                      lay_liability(lay_stake, lay_odds))
    IN  IF RLt(Zero, gross) THEN RMul(gross, RSub(One, RMul(Num(100), c)))
        ELSE gross

pnl_if_win(back_stake, back_odds, lay_stake, lay_odds, c) ==
    LET gross == RSub(RMul(back_stake, RSub(back_odds, One)),
                      lay_liability(lay_stake, lay_odds))
    IN  IF RLt(Zero, gross) THEN RMul(gross, RSub(One, c)) ELSE gross

\* mutant: the commission is taken off the lay stake won, not off the net
pnl_if_lose_commission_on_stake(back_stake, lay_stake, c) ==
    RAdd(RNeg(back_stake), RMul(lay_stake, RSub(One, c)))

pnl_if_lose(back_stake, lay_stake, c) ==
    LET gross == RAdd(RNeg(back_stake), lay_stake)
    IN  IF RLt(Zero, gross) THEN RMul(gross, RSub(One, c)) ELSE gross

\* mutant: the clamp at zero is missing
lay_stake_unclamped(back_stake, target_loss) == RSub(back_stake, target_loss)

lay_stake_for_target_loss_when_lose(back_stake, target_loss) ==
    RMax(Zero, RSub(back_stake, target_loss))

\* mutant: the target profit is not grossed up by the commission
lay_odds_needed_no_gross_up(back_stake, back_odds, lay_stake, min_profit_win, c) ==
    IF RLe(lay_stake, Zero) THEN None
    ELSE LET numerator == RSub(RMul(back_stake, RSub(back_odds, One)), min_profit_win)
             max_lay_odds == RAdd(One, RDiv(numerator, lay_stake))
         IN  IF RLe(max_lay_odds, Rat(101, 100)) THEN None ELSE max_lay_odds

\* mutant: the guard rejects only a negative lay stake
lay_odds_needed_guard_negative_only(back_stake, back_odds, lay_stake, min_profit_win, c) ==
    IF RLt(lay_stake, Zero) THEN None
    ELSE LET den == MaxEps(RSub(One, c))
             gross_target == RDiv(min_profit_win, den)
             numerator == RSub(RMul(back_stake, RSub(back_odds, One)), gross_target)
         IN  IF lay_stake.n = 0 THEN ZeroDivisionError
             ELSE LET max_lay_odds == RAdd(One, RDiv(numerator, lay_stake))
                  IN  IF RLe(max_lay_odds, Rat(101, 100)) THEN None
                      ELSE max_lay_odds

lay_odds_needed_for_min_profit_if_win(back_stake, back_odds, lay_stake, min_profit_win, c) ==
    IF RLe(lay_stake, Zero) THEN None
    ELSE LET den == MaxEps(RSub(One, c))
         IN  IF den.n = 0 THEN ZeroDivisionError
             ELSE LET gross_target == RDiv(min_profit_win, den)
                      numerator == RSub(RMul(back_stake, RSub(back_odds, One)), gross_target)
                  IN  IF lay_stake.n = 0 THEN ZeroDivisionError
                      ELSE LET max_lay_odds == RAdd(One, RDiv(numerator, lay_stake))
                           IN  IF RLe(max_lay_odds, Rat(101, 100)) THEN None
                               ELSE max_lay_odds

(***************************************************************************)
(* make_stop_plan, lines 494-566: one loop iteration for the percentage s. *)
(* fr holds the loop's locals as the previous iteration left them; a       *)
(* "continue" leaves the locals it has not assigned as they were.  An      *)
(* exception raised by a callee leaves the loop: raised is then TRUE and   *)
(* no row is appended.                                                     *)
(***************************************************************************)
StopLabel(s) == <<"+", s, "%">>

\* mutant: the lose outcome cell is left at the placeholder in every row
RowWithoutLoseCell(s, quota, banca, vinci, perdi, note) ==
    [Stop |-> StopLabel(s), Quota_stop |-> Round2(quota),
     Banca_consigliata |-> banca, Esito_se_VINCI |-> vinci,
     Esito_se_PERDI |-> Dash, Note |-> note]

Row(s, quota, banca, vinci, perdi, note) ==
    [Stop |-> StopLabel(s), Quota_stop |-> Round2(quota),
     Banca_consigliata |-> banca, Esito_se_VINCI |-> vinci,
     Esito_se_PERDI |-> perdi, Note |-> note]

NoteOK == [text |-> "OK", hint |-> None]
NoteNoStake ==
    [text |-> "Impossibile (perdita max troppo bassa rispetto alla puntata).",
     hint |-> None]
\* the hint is the f"{max_lay:.2f}" of " Prova quota stop <= ... oppure
\* abbassa profitto minimo.", None when the note carries no such sentence
NoteProfit(max_lay) ==
    [text |-> "Impossibile (profitto minimo troppo alto o stop troppo aggressivo).",
     hint |-> IF max_lay # None /\ max_lay # Zero THEN Fmt2(max_lay) ELSE None]
NoteLoss == [text |-> "Impossibile (perdita se perdi oltre max).", hint |-> None]

\* mutant: the trigger odds are rounded to 2 decimals before they are used
QuotaStopRounded(back_odds, s) == Round2(RMul(back_odds, RAdd(One, Rat(s, 100))))

\* mutant: the step is taken off the back odds, not added to them
QuotaStopBelow(back_odds, s) == RMul(back_odds, RSub(One, Rat(s, 100)))

\* line 506: quota_stop = back_odds * (1.0 + s / 100.0)
QuotaStop(back_odds, s) == RMul(back_odds, RAdd(One, Rat(s, 100)))

\* mutant: a lay stake of zero is let through
StakeTooLowNegativeOnly(lay_stake) == RLt(lay_stake, Zero)

\* line 509: if lay_stake_ <= 0
StakeTooLow(lay_stake) == RLe(lay_stake, Zero)

\* mutant: the profit floor is tested against zero, not against the floor
ProfitTooLowAgainstZero(win_pnl, min_profit_if_win) == LtMinusEps(win_pnl, Zero)

\* line 525: if win_pnl < min_profit_if_win - 1e-9
ProfitTooLow(win_pnl, min_profit_if_win) == LtMinusEps(win_pnl, min_profit_if_win)

\* line 542: if lose_pnl < -max_loss_if_lose - 1e-9
LossOverMax(lose_pnl, max_loss_if_lose) == LtMinusEps(lose_pnl, RNeg(max_loss_if_lose))

\* mutant: the ladder compounds, each step starting from the trigger odds
\* the iteration before it left behind
StopIterCompounding(back_stake, back_odds, c, max_loss_if_lose, min_profit_if_win, s, fr) ==
    LET from == IF fr.quota_stop = Unbound THEN back_odds ELSE fr.quota_stop
        quota_stop == QuotaStop(from, s)
        lay_stake == lay_stake_for_target_loss_when_lose(back_stake, max_loss_if_lose)
        win_pnl == pnl_if_win(back_stake, from, lay_stake, quota_stop, c)
        lose_pnl == pnl_if_lose(back_stake, lay_stake, c)
        fr1 == [fr EXCEPT !.quota_stop = quota_stop, !.lay_stake_ = lay_stake]
        fr2 == [fr1 EXCEPT !.win_pnl = win_pnl, !.lose_pnl = lose_pnl]
    IN  IF StakeTooLow(lay_stake)
        THEN [row |-> Row(s, quota_stop, Dash, Dash, Dash, NoteNoStake),
              frame |-> fr1, raised |-> FALSE]
        ELSE IF ProfitTooLow(win_pnl, min_profit_if_win)
        THEN [row |-> Row(s, quota_stop, Dash, Dash, Dash, NoteProfit(None)),
              frame |-> fr2, raised |-> FALSE]
        ELSE [row |-> Row(s, quota_stop, Fmt2(lay_stake), FmtSigned2(win_pnl),
                          FmtSigned2(lose_pnl), NoteOK),
              frame |-> fr2, raised |-> FALSE]

StopIter(back_stake, back_odds, c, max_loss_if_lose, min_profit_if_win, s, fr) ==
    LET quota_stop == QuotaStop(back_odds, s)
        lay_stake == lay_stake_for_target_loss_when_lose(back_stake, max_loss_if_lose)
        win_pnl == pnl_if_win(back_stake, back_odds, lay_stake, quota_stop, c)
        lose_pnl == pnl_if_lose(back_stake, lay_stake, c)
        max_lay == lay_odds_needed_for_min_profit_if_win(
                       back_stake, back_odds, lay_stake, min_profit_if_win, c)
        fr1 == [fr EXCEPT !.quota_stop = quota_stop, !.lay_stake_ = lay_stake]
        fr2 == [fr1 EXCEPT !.win_pnl = win_pnl, !.lose_pnl = lose_pnl]
    IN  IF StakeTooLow(lay_stake)
        THEN [row |-> Row(s, quota_stop, Dash, Dash, Dash, NoteNoStake),
              frame |-> fr1, raised |-> FALSE]
        ELSE IF ProfitTooLow(win_pnl, min_profit_if_win)
        THEN IF max_lay = ZeroDivisionError
             THEN [row |-> None, frame |-> fr2, raised |-> TRUE]
             ELSE [row |-> Row(s, quota_stop, Dash, Dash, Dash, NoteProfit(max_lay)),
                   frame |-> [fr2 EXCEPT !.max_lay = max_lay], raised |-> FALSE]
        ELSE IF LossOverMax(lose_pnl, max_loss_if_lose)
        THEN [row |-> Row(s, quota_stop, Dash, Dash, Dash, NoteLoss),
              frame |-> fr2, raised |-> FALSE]
        ELSE [row |-> Row(s, quota_stop, Fmt2(lay_stake), FmtSigned2(win_pnl),
                          FmtSigned2(lose_pnl), NoteOK),
              frame |-> fr2, raised |-> FALSE]

(***************************************************************************)
(* Inputs.  The widgets of TAB 2 (lines 1018-1033) bound them from below:  *)
(* back_stake >= 1, back_odds >= 1.01, 0 <= comm_pct <= 20, max_loss >= 0, *)
(* min_profit >= 0.  stop_steps is [25, 35, 50] in the handler (line 1049);*)
(* make_stop_plan takes any list.                                          *)
(***************************************************************************)
BackStakes == {Num(k) : k \in 1..MaxBackStake}
BackOdds == {Rat(150 + 20 * k, 100) : k \in 0..MaxOddsK}
CommPcts == {Num(5 * k) : k \in 0..MaxCommK}
MaxLosses == {Rat(k, 2) : k \in 0..MaxLossHalves}
MinProfits == {Rat(k, 2) : k \in 0..MaxProfitHalves}
StepLists == {<<25, 35, 50>>, <<15, 25, 35, 50, 75>>, <<50, 25>>}

\* a profit floor typed with more decimals: half of 1e-9 above 1/16, the win
\* profit of back_stake 1 at 1.50 hedged with 0.50 at +25% without commission
NearFloorForms ==
    [back_stake : {Num(1)}, back_odds : {Rat(150, 100)}, comm_pct : {Zero},
     max_loss_if_lose : {Rat(1, 2)},
     min_profit_if_win : {RAdd(Rat(1, 16), Rat(1, 2 * EpsDen))},
     stop_steps : StepLists]

\* two worked positions: 100 at 1.90 with no loss allowed, and 10 at 1.70
\* with a loss cap of 4 and a profit floor of 1, both at 5% commission
ScenarioForms ==
    [back_stake : {Num(100)}, back_odds : {Rat(190, 100)}, comm_pct : {Num(5)},
     max_loss_if_lose : {Zero}, min_profit_if_win : {Zero},
     stop_steps : StepLists]
    \cup
    [back_stake : {Num(10)}, back_odds : {Rat(170, 100)}, comm_pct : {Num(5)},
     max_loss_if_lose : {Num(4)}, min_profit_if_win : {Num(1)},
     stop_steps : StepLists]

\* arguments make_stop_plan accepts although the widgets do not produce
\* them: a commission of 100% and of 150%, with loss caps below, at and
\* above the back stake (the values keep min_profit / 1e-9 within TLC's
\* integers)
OutOfRangeForms ==
    [back_stake : {Num(1)}, back_odds : {Rat(150, 100)},
     comm_pct : {Num(100), Num(150)},
     max_loss_if_lose : {Zero, Rat(1, 2), One, Rat(3, 2)},
     min_profit_if_win : {Zero, Rat(1, 2), One},
     stop_steps : StepLists]

Forms ==
    [back_stake : BackStakes, back_odds : BackOdds, comm_pct : CommPcts,
     max_loss_if_lose : MaxLosses, min_profit_if_win : MinProfits,
     stop_steps : StepLists]
    \cup NearFloorForms \cup ScenarioForms \cup OutOfRangeForms

\* arguments of the direct calls; a commission of 100% is drawn only with
\* min_profit_win = 0, where min_profit_win / 1e-9 stays within TLC's integers
LayStakes == {Rat(k, 2) : k \in -1..MaxLayStakeHalves}
LayOdds == {Rat(101 + 50 * k, 100) : k \in 0..MaxLayOddsK}
Commissions == {RDiv(p, Num(100)) : p \in CommPcts} \cup {One}
CallArgs ==
    {a \in [back_stake : BackStakes, back_odds : BackOdds,
            lay_stake_ : LayStakes, lay_odds_ : LayOdds, comm : Commissions,
            target_loss : MaxLosses, min_profit_win : MinProfits] :
        RLt(a.comm, One) \/ a.min_profit_win = Zero}

NoFrame ==
    [quota_stop |-> Unbound, lay_stake_ |-> Unbound, win_pnl |-> Unbound,
     lose_pnl |-> Unbound, max_lay |-> Unbound]

\* values of the "Quota LIVE attuale" widget (line 1064: min_value 1.01; its
\* default is the stored live_odds or back_odds)
LiveOdds == LayOdds \cup {Rat(250, 100)}

NoLive == [shown |-> "nothing"]
NoFetch == [pc |-> "none"]
NoUi == [run |-> "none"]

(***************************************************************************)
(* The CALCOLA handler (line 1052) calling make_stop_plan.                 *)
(***************************************************************************)
Init ==
    /\ form \in Forms
    /\ pc = "idle"
    /\ comm = Unbound
    /\ plan = <<>>
    /\ frame = NoFrame
    /\ args = None
    /\ called = "none"
    /\ ret = None
    /\ live = NoLive
    /\ fetch = NoFetch
    /\ ui = NoUi

\* lines 502-503: comm = comm_pct / 100.0; plan = []
Calcola ==
    /\ pc = "idle"
    /\ pc' = "loop"
    /\ comm' = RDiv(form.comm_pct, Num(100))
    /\ plan' = <<>>
    /\ UNCHANGED <<form, frame, args, called, ret, live, fetch, ui>>

\* lines 505-564: the body of "for s in stop_steps"
LoopBody ==
    /\ pc = "loop"
    /\ Len(plan) < Len(form.stop_steps)
    /\ LET it == StopIter(form.back_stake, form.back_odds, comm,
                          form.max_loss_if_lose, form.min_profit_if_win,
                          form.stop_steps[Len(plan) + 1], frame)
       IN  /\ plan' = IF it.raised THEN plan ELSE Append(plan, it.row)
           /\ frame' = it.frame
           /\ pc' = IF it.raised THEN "raised" ELSE pc
    /\ UNCHANGED <<form, comm, args, called, ret, live, fetch, ui>>

\* line 566: return plan
ReturnPlan ==
    /\ pc = "loop"
    /\ Len(plan) = Len(form.stop_steps)
    /\ pc' = "returned"
    /\ UNCHANGED <<form, comm, plan, frame, args, called, ret, live, fetch, ui>>

\* mutant: the exit lays back_stake*back_odds/(live_odds - comm), the
\* equal-profit stake
LiveExitGreenUp ==
    /\ pc = "returned"
    /\ pc' = "done"
    /\ \E live_odds \in LiveOdds \cup {form.back_odds} :
           LET c == RDiv(form.comm_pct, Num(100))
               den == RSub(live_odds, c)
               lay_stake == IF den.n = 0 THEN Zero
                            ELSE RDiv(RMul(form.back_stake, form.back_odds), den)
               win_p == pnl_if_win(form.back_stake, form.back_odds, lay_stake,
                                   live_odds, c)
               lose_p == pnl_if_lose(form.back_stake, lay_stake, c)
               liab == lay_liability(lay_stake, live_odds)
           IN  live' =
                   IF RLe(lay_stake, Zero)
                   THEN [shown |-> "warning", live_odds |-> live_odds,
                         lay_stake_ |-> lay_stake]
                   ELSE [shown |-> "card", live_odds |-> live_odds,
                         lay_stake_ |-> lay_stake, win_p |-> win_p,
                         lose_p |-> lose_p, liab |-> liab,
                         banca |-> Fmt2(lay_stake), quota |-> Fmt2(live_odds),
                         liability |-> Fmt2(liab), vinci |-> FmtSigned2(win_p),
                         perdi |-> FmtSigned2(lose_p)]
    /\ UNCHANGED <<form, comm, plan, frame, args, called, ret, fetch, ui>>

\* lines 1063-1090: the "Uscita adesso" block that follows the plan in the
\* handler
LiveExit ==
    /\ pc = "returned"
    /\ pc' = "done"
    /\ \E live_odds \in LiveOdds \cup {form.back_odds} :
           LET c == RDiv(form.comm_pct, Num(100))
               lay_stake == lay_stake_for_target_loss_when_lose(
                                form.back_stake, form.max_loss_if_lose)
               win_p == pnl_if_win(form.back_stake, form.back_odds, lay_stake,
                                   live_odds, c)
               lose_p == pnl_if_lose(form.back_stake, lay_stake, c)
               liab == lay_liability(lay_stake, live_odds)
           IN  live' =
                   IF RLe(lay_stake, Zero)
                   THEN [shown |-> "warning", live_odds |-> live_odds,
                         lay_stake_ |-> lay_stake]
                   ELSE [shown |-> "card", live_odds |-> live_odds,
                         lay_stake_ |-> lay_stake, win_p |-> win_p,
                         lose_p |-> lose_p, liab |-> liab,
                         banca |-> Fmt2(lay_stake), quota |-> Fmt2(live_odds),
                         liability |-> Fmt2(liab), vinci |-> FmtSigned2(win_p),
                         perdi |-> FmtSigned2(lose_p)]
    /\ UNCHANGED <<form, comm, plan, frame, args, called, ret, fetch, ui>>

Next == Calcola \/ LoopBody \/ ReturnPlan \/ LiveExit

Spec == Init /\ [][Next]_vars

(***************************************************************************)
(* Direct calls of the pure functions on drawn arguments.                  *)
(***************************************************************************)
InitFn ==
    /\ args \in CallArgs
    /\ called = "none"
    /\ ret = None
    /\ form = None
    /\ pc = "idle"
    /\ comm = Unbound
    /\ plan = <<>>
    /\ frame = NoFrame
    /\ live = NoLive
    /\ fetch = NoFetch
    /\ ui = NoUi

Call(fn, value) ==
    /\ called = "none"
    /\ called' = fn
    /\ ret' = value
    /\ UNCHANGED <<form, pc, comm, plan, frame, args, live, fetch, ui>>

CallLayLiability ==
    Call("lay_liability", lay_liability(args.lay_stake_, args.lay_odds_))

CallPnlIfWin ==
    Call("pnl_if_win",
         pnl_if_win(args.back_stake, args.back_odds, args.lay_stake_,
                    args.lay_odds_, args.comm))

CallPnlIfLose ==
    Call("pnl_if_lose", pnl_if_lose(args.back_stake, args.lay_stake_, args.comm))

CallLayStakeForTargetLoss ==
    Call("lay_stake_for_target_loss_when_lose",
         lay_stake_for_target_loss_when_lose(args.back_stake, args.target_loss))

CallLayOddsNeeded ==
    Call("lay_odds_needed_for_min_profit_if_win",
         lay_odds_needed_for_min_profit_if_win(
             args.back_stake, args.back_odds, args.lay_stake_,
             args.min_profit_win, args.comm))

\* by how much the second lay stake of a comparison exceeds the first
StakeSteps == {Rat(1, 2), Num(2)}

\* both results at args.lay_stake_ and at a larger lay stake b, everything
\* else the same
CallPnlAtTwoStakes ==
    \E step \in StakeSteps :
        LET b == RAdd(args.lay_stake_, step)
        IN  Call("pnl_at_two_stakes",
                 [b |-> b,
                  win_a |-> pnl_if_win(args.back_stake, args.back_odds,
                                       args.lay_stake_, args.lay_odds_, args.comm),
                  win_b |-> pnl_if_win(args.back_stake, args.back_odds,
                                       b, args.lay_odds_, args.comm),
                  lose_a |-> pnl_if_lose(args.back_stake, args.lay_stake_, args.comm),
                  lose_b |-> pnl_if_lose(args.back_stake, b, args.comm)])

NextFn ==
    \/ CallPnlAtTwoStakes
    \/ CallLayLiability
    \/ CallPnlIfWin
    \/ CallPnlIfLose
    \/ CallLayStakeForTargetLoss
    \/ CallLayOddsNeeded

SpecFn == InitFn /\ [][NextFn]_vars

(***************************************************************************)
(* get_odds_totals, src/live_odds.py lines 8-86.  The network and the API  *)
(* are the environment: requests.get raises or returns a response with a   *)
(* status code and a body.  A body is text that is not JSON ("invalid"), a *)
(* JSON list of events, a JSON object with or without a "message", or any  *)
(* other JSON value.  api_key and odds_format only travel in the request.  *)
(***************************************************************************)
SportKeys == {"soccer", "soccer_italy_serie_a"}
Regions == {"eu", "uk", "us"}
StatusCodes == {200, 401, 404, 429, 500}
Excs == {"ConnectionError", "Timeout"}

StatusCode(n) == [code |-> n]
\* a string; arg is what an f-string interpolates into it, or None
Str(t, arg) == [text |-> t, arg |-> arg]
Absent == [tag |-> "absent"]
EventList(k) == [i \in 1..k |-> [id |-> i]]

Messages == {Absent, None, Str("", None), Str("quota exceeded", None)}
Bodies ==
    {[kind |-> "invalid"], [kind |-> "other"]}
    \cup {[kind |-> "list", items |-> EventList(k)] : k \in 0..MaxEvents}
    \cup {[kind |-> "dict", message |-> m] : m \in Messages}

IsList(data) == data # None /\ data.kind = "list"
IsDict(data) == data # None /\ data.kind = "dict"
\* Python's "not msg" for the values a message takes here
Falsy(msg) == msg = None \/ msg = Str("", None)

\* the url of lines 25 and 57 (r.url adds the query string)
Url(sport_key, query) == [sports |-> sport_key, query |-> query]

Meta(ok, status_code, message, url) ==
    [ok |-> ok, status_code |-> status_code, message |-> message, url |-> url,
     sport_key |-> fetch.sport_key, regions |-> fetch.regions]

InitOdds ==
    /\ fetch \in [pc : {"start"}, sport_key : SportKeys, regions : Regions,
                  r : {None}, data : {None}, ret : {None}]
    /\ form = None
    /\ pc = "idle"
    /\ comm = Unbound
    /\ plan = <<>>
    /\ frame = NoFrame
    /\ args = None
    /\ called = "none"
    /\ ret = None
    /\ live = NoLive
    /\ ui = NoUi

\* lines 33-34: requests.get returns a response
RequestsGet ==
    /\ fetch.pc = "start"
    /\ \E status \in StatusCodes, body \in Bodies :
           fetch' = [fetch EXCEPT !.pc = "got",
                                  !.r = [status_code |-> StatusCode(status),
                                         body |-> body,
                                         url |-> Url(fetch.sport_key, TRUE)]]
    /\ UNCHANGED <<form, pc, comm, plan, frame, args, called, ret, live, ui>>

\* lines 33-43: requests.get raises; the except clause returns
RequestsGetRaises ==
    /\ fetch.pc = "start"
    /\ \E e \in Excs :
           fetch' = [fetch EXCEPT
                        !.pc = "returned",
                        !.ret = [events |-> <<>>,
                                 meta |-> Meta(FALSE, None,
                                               Str("Request error: ", [exc |-> e]),
                                               Url(fetch.sport_key, FALSE))]]
    /\ UNCHANGED <<form, pc, comm, plan, frame, args, called, ret, live, ui>>

\* mutant: a body that is not JSON is not caught
ReadJsonUncaught ==
    /\ fetch.pc = "got"
    /\ fetch' = IF fetch.r.body.kind = "invalid"
                THEN [fetch EXCEPT !.pc = "raised"]
                ELSE [fetch EXCEPT !.pc = "decoded", !.data = fetch.r.body]
    /\ UNCHANGED <<form, pc, comm, plan, frame, args, called, ret, live, ui>>

\* lines 46-49: data = r.json(), None when that raises
ReadJson ==
    /\ fetch.pc = "got"
    /\ fetch' = [fetch EXCEPT
                    !.pc = "decoded",
                    !.data = IF fetch.r.body.kind = "invalid" THEN None
                             ELSE fetch.r.body]
    /\ UNCHANGED <<form, pc, comm, plan, frame, args, called, ret, live, ui>>

\* lines 51-65: a status other than 200
ReturnHttpError ==
    /\ fetch.pc = "decoded"
    /\ fetch.r.status_code # StatusCode(200)
    /\ LET got == IF IsDict(fetch.data)
                  THEN IF fetch.data.message = Absent THEN Str("", None)
                       ELSE fetch.data.message
                  ELSE Str("", None)
           msg == IF Falsy(got) THEN Str("HTTP ", fetch.r.status_code) ELSE got
       IN  fetch' = [fetch EXCEPT
                        !.pc = "returned",
                        !.ret = [events |-> <<>>,
                                 meta |-> Meta(FALSE, fetch.r.status_code, msg,
                                               fetch.r.url)]]
    /\ UNCHANGED <<form, pc, comm, plan, frame, args, called, ret, live, ui>>

\* lines 67-77: status 200 and a body that is not a list
ReturnNotList ==
    /\ fetch.pc = "decoded"
    /\ fetch.r.status_code = StatusCode(200)
    /\ ~IsList(fetch.data)
    /\ fetch' = [fetch EXCEPT
                    !.pc = "returned",
                    !.ret = [events |-> <<>>,
                             meta |-> Meta(FALSE, fetch.r.status_code,
                                           Str("Unexpected response format (not a list).", None),
                                           fetch.r.url)]]
    /\ UNCHANGED <<form, pc, comm, plan, frame, args, called, ret, live, ui>>

\* lines 79-86: status 200 and a list
ReturnEvents ==
    /\ fetch.pc = "decoded"
    /\ fetch.r.status_code = StatusCode(200)
    /\ IsList(fetch.data)
    /\ fetch' = [fetch EXCEPT
                    !.pc = "returned",
                    !.ret = [events |-> fetch.data.items,
                             meta |-> [ok |-> TRUE,
                                       status_code |-> fetch.r.status_code,
                                       message |-> Str("OK", None),
                                       url |-> fetch.r.url,
                                       sport_key |-> fetch.sport_key,
                                       regions |-> fetch.regions,
                                       count |-> Len(fetch.data.items)]]]
    /\ UNCHANGED <<form, pc, comm, plan, frame, args, called, ret, live, ui>>

NextOdds ==
    \/ RequestsGet
    \/ RequestsGetRaises
    \/ ReadJson
    \/ ReturnHttpError
    \/ ReturnNotList
    \/ ReturnEvents

SpecOdds == InitOdds /\ [][NextOdds]_vars

(***************************************************************************)
(* TAB 1 of src/app.py, lines 624-904.  Streamlit runs the script from top *)
(* to bottom on every interaction; in one run at most one button is        *)
(* pressed.  An action is one run.  st.session_state is the fields result, *)
(* source, candidates and leagues; day and manual are what the run drew in *)
(* the two mode tabs; end is how the run ended ("end", "stop" for          *)
(* st.stop(), "exception" for a request that raised).  A result is named   *)
(* by the tab whose handler stored it and a serial number; n counts the    *)
(* analyses and last_done records which handler completed last.            *)
(***************************************************************************)
NoResult == [origin |-> "none", n |-> 0]

\* mutant: the day tab draws the stored result whatever its source
DayRenderAnySource(u) ==
    IF u.candidates > 0 /\ u.result # NoResult THEN u.result ELSE NoResult

\* lines 701-704, 730-731: inside "else" of "if not candidates":
\* if res and last_analysis_source == "day"
DayRender(u) ==
    IF u.candidates > 0 /\ u.result # NoResult /\ u.source = "day"
    THEN u.result ELSE NoResult

\* lines 903-904: if res and last_analysis_source == "manual"
ManualRender(u) ==
    IF u.result # NoResult /\ u.source = "manual" THEN u.result ELSE NoResult

InitUi ==
    /\ ui = [result |-> NoResult, source |-> "none", candidates |-> 0,
             leagues |-> 0, n |-> 0, last_done |-> "none",
             run |-> "first", end |-> "end",
             day |-> NoResult, manual |-> NoResult]
    /\ form = None
    /\ pc = "idle"
    /\ comm = Unbound
    /\ plan = <<>>
    /\ frame = NoFrame
    /\ args = None
    /\ called = "none"
    /\ ret = None
    /\ live = NoLive
    /\ fetch = NoFetch

\* a run with "Trova partite" pressed (lines 654-699), then the rest of the
\* script
RunTrova ==
    /\ \E leagues \in 0..MaxLeagues, found \in 0..MaxCandidates,
          raises \in BOOLEAN :
           ui' = IF leagues = 0
                 THEN [ui EXCEPT !.leagues = 0, !.run = "trova", !.end = "end",
                                 !.day = DayRender(ui),
                                 !.manual = ManualRender(ui)]
                 ELSE IF raises
                 THEN [ui EXCEPT !.leagues = leagues, !.run = "trova",
                                 !.end = "exception",
                                 !.day = NoResult, !.manual = NoResult]
                 ELSE LET s == [ui EXCEPT !.leagues = leagues,
                                          !.candidates = found,
                                          !.result = NoResult,
                                          !.source = "none"]
                      IN  [s EXCEPT !.run = "trova", !.end = "end",
                                    !.day = DayRender(s),
                                    !.manual = ManualRender(s)]
    /\ UNCHANGED <<form, pc, comm, plan, frame, args, called, ret, live, fetch>>

\* a run with "Analizza questa partita" pressed (lines 723-731); the button
\* is drawn only when there are candidates
RunAnalyzeDay ==
    /\ ui.candidates > 0
    /\ ui.n < MaxAnalyses
    /\ \E raises \in BOOLEAN :
           ui' = IF raises
                 THEN [ui EXCEPT !.run = "day", !.end = "exception",
                                 !.day = NoResult, !.manual = NoResult]
                 ELSE LET s == [ui EXCEPT
                                   !.result = [origin |-> "day", n |-> ui.n + 1],
                                   !.source = "day",
                                   !.n = ui.n + 1,
                                   !.last_done = "day"]
                      IN  [s EXCEPT !.run = "day", !.end = "end",
                                    !.day = DayRender(s),
                                    !.manual = ManualRender(s)]
    /\ UNCHANGED <<form, pc, comm, plan, frame, args, called, ret, live, fetch>>

\* a run with "Analizza (manuale)" pressed (lines 848-904): the day tab has
\* been drawn before the handler runs
RunAnalyzeManual ==
    /\ ui.n < MaxAnalyses
    /\ \E outcome \in {"end", "stop", "exception"} :
           ui' = IF outcome = "end"
                 THEN LET s == [ui EXCEPT
                                   !.result = [origin |-> "manual", n |-> ui.n + 1],
                                   !.source = "manual",
                                   !.n = ui.n + 1,
                                   !.last_done = "manual"]
                      IN  [s EXCEPT !.run = "manual", !.end = "end",
                                    !.day = DayRender(ui),
                                    !.manual = ManualRender(s)]
                 ELSE [ui EXCEPT !.run = "manual", !.end = outcome,
                                 !.day = DayRender(ui), !.manual = NoResult]
    /\ UNCHANGED <<form, pc, comm, plan, frame, args, called, ret, live, fetch>>

\* a run started by any other widget: no handler, both tabs drawn
RunOther ==
    /\ ui' = [ui EXCEPT !.run = "other", !.end = "end",
                        !.day = DayRender(ui), !.manual = ManualRender(ui)]
    /\ UNCHANGED <<form, pc, comm, plan, frame, args, called, ret, live, fetch>>

NextUi == RunTrova \/ RunAnalyzeDay \/ RunAnalyzeManual \/ RunOther

SpecUi == InitUi /\ [][NextUi]_vars

(***************************************************************************)
(* Claims about the pure functions, checked under SpecFn.                  *)
(***************************************************************************)
InUnit(c) == RLe(Zero, c) /\ RLt(c, One)

\* back_stake*(back_odds - 1) - lay_stake*(lay_odds - 1), written out
WinGross(a) ==
    RSub(RMul(a.back_stake, RSub(a.back_odds, One)),
         RMul(a.lay_stake_, RSub(a.lay_odds_, One)))

C1_Case ==
    /\ called = "pnl_if_win"
    /\ RLt(Zero, args.back_stake) /\ RLt(One, args.back_odds)
    /\ RLe(Zero, args.lay_stake_) /\ RLt(One, args.lay_odds_)
    /\ InUnit(args.comm)

\* C1 as stated: pnl_if_win returns back_stake*(back_odds - 1) -
\* lay_stake*(lay_odds - 1), with no commission term.
C1_AsStated == C1_Case => ret = WinGross(args)

\* C1 amended: pnl_if_win returns that amount unchanged when it is <= 0 and
\* that amount times (1 - commission) when it is > 0.
C1_WinBranch ==
    C1_Case =>
        ret = IF WinGross(args).n > 0
              THEN RMul(WinGross(args), RSub(One, args.comm))
              ELSE WinGross(args)

\* C1 witness: a call with a positive gross result and a positive commission rate
C1_Witness ==
    /\ C1_Case
    /\ WinGross(args).n > 0
    /\ args.comm.n > 0
    /\ RLt(ret, WinGross(args))

C2_Case ==
    /\ called = "pnl_if_lose"
    /\ RLt(Zero, args.back_stake) /\ RLt(Zero, args.lay_stake_)
    /\ InUnit(args.comm)

\* C2 as stated: pnl_if_lose returns -back_stake + lay_stake*(1 - commission).
C2_AsStated ==
    C2_Case =>
        ret = RAdd(RNeg(args.back_stake),
                   RMul(args.lay_stake_, RSub(One, args.comm)))

\* C2 amended: pnl_if_lose returns lay_stake - back_stake when that is <= 0
\* and (lay_stake - back_stake)*(1 - commission) when it is > 0: the
\* commission is taken off the net, not off the lay stake won.
C2_LoseBranch ==
    C2_Case =>
        LET net == RSub(args.lay_stake_, args.back_stake)
        IN  ret = IF net.n > 0 THEN RMul(net, RSub(One, args.comm)) ELSE net

\* C2 witness: a call with a positive commission rate where the two readings differ
C2_Witness ==
    /\ C2_Case
    /\ args.comm.n > 0
    /\ ret # RAdd(RNeg(args.back_stake),
                  RMul(args.lay_stake_, RSub(One, args.comm)))

C3_Case ==
    /\ called = "lay_stake_for_target_loss_when_lose"
    /\ RLt(Zero, args.back_stake) /\ RLe(Zero, args.target_loss)
    /\ InUnit(args.comm)

\* C3 as stated: the stake solver returns
\* max(0, (back_stake - max_loss_if_lose) / (1 - commission)).
C3_AsStated ==
    C3_Case =>
        ret = RMax(Zero, RDiv(RSub(args.back_stake, args.target_loss),
                              RSub(One, args.comm)))

\* C3 amended: the stake solver returns max(0, back_stake - max_loss_if_lose)
\* whatever the commission; it is never negative, and it is 0 exactly when
\* max_loss_if_lose >= back_stake.
C3_StakeSolver ==
    C3_Case =>
        /\ RLe(Zero, ret)
        /\ (ret = Zero) <=> RLe(args.back_stake, args.target_loss)
        /\ RLt(args.target_loss, args.back_stake)
               => ret = RSub(args.back_stake, args.target_loss)

\* C3 witness: a call with a positive commission rate and a loss cap below the stake
C3_Witness ==
    /\ C3_Case
    /\ args.comm.n > 0
    /\ RLt(args.target_loss, args.back_stake)
    /\ ret = RSub(args.back_stake, args.target_loss)

C8_Case ==
    /\ called = "lay_odds_needed_for_min_profit_if_win"
    /\ RLt(Zero, args.lay_stake_)
    /\ InUnit(args.comm)
    /\ IsNum(ret)

\* back_stake*(back_odds - 1), written out
BackProfit(a) == RMul(a.back_stake, RSub(a.back_odds, One))

\* C8 as stated: a returned maximum lay odds equals
\* 1 + (back_stake*(back_odds - 1) - min_profit_if_win) / lay_stake,
\* independent of the commission.
C8_AsStated ==
    C8_Case =>
        ret = RAdd(One, RDiv(RSub(BackProfit(args), args.min_profit_win),
                             args.lay_stake_))

\* C8 amended: a returned maximum lay odds equals 1 + (back_stake*
\* (back_odds - 1) - min_profit_if_win / max(1e-9, 1 - commission)) /
\* lay_stake: the target profit is grossed up by the commission.
C8_MaxLayOdds ==
    C8_Case =>
        ret = RAdd(One,
                   RDiv(RSub(BackProfit(args),
                             RDiv(args.min_profit_win,
                                  MaxEps(RSub(One, args.comm)))),
                        args.lay_stake_))

\* C8 witness: a returned value with a positive target profit and commission rate
C8_Witness ==
    /\ C8_Case
    /\ args.min_profit_win.n > 0
    /\ args.comm.n > 0

\* C9: lay_odds_needed_for_min_profit_if_win returns None whenever
\* lay_stake <= 0 and whenever the computed maximum lay odds is <= 1.01,
\* every value it returns is > 1.01, and it never raises.
C9_Guards ==
    called = "lay_odds_needed_for_min_profit_if_win" =>
        /\ ret # ZeroDivisionError
        /\ RLe(args.lay_stake_, Zero) => ret = None
        /\ ( /\ RLt(Zero, args.lay_stake_)
             /\ RLe(RAdd(One,
                         RDiv(RSub(BackProfit(args),
                                   RDiv(args.min_profit_win,
                                        MaxEps(RSub(One, args.comm)))),
                              args.lay_stake_)),
                    Rat(101, 100)) )
               => ret = None
        /\ ret # None => IsNum(ret) /\ RLt(Rat(101, 100), ret)

\* C9 witness: a call with a positive lay stake whose maximum lay odds is <= 1.01
C9_Witness ==
    /\ called = "lay_odds_needed_for_min_profit_if_win"
    /\ RLt(Zero, args.lay_stake_)
    /\ ret = None

(***************************************************************************)
(* Claims about make_stop_plan, checked under Spec.                        *)
(***************************************************************************)
Rows == 1..Len(plan)
StepOf(i) == form.stop_steps[i]
Rate == RDiv(form.comm_pct, Num(100))

\* back_odds*(1 + s/100), written out
TriggerOdds(i) == RMul(form.back_odds, Rat(100 + StepOf(i), 100))

\* the spec's bounds: x_min = (back_stake - max_loss_if_lose)/(1 - commission),
\* x_max = (back_stake*(back_odds - 1) - min_profit_if_win)/(lay_odds - 1)
XMin == RDiv(RSub(form.back_stake, form.max_loss_if_lose), RSub(One, Rate))
XMax(i) ==
    RDiv(RSub(BackProfit(form), form.min_profit_if_win),
         RSub(TriggerOdds(i), One))

\* the stake the code recommends, back_stake - max_loss_if_lose, and the
\* two results at that stake and the row's trigger odds, written out
CodeStake == RSub(form.back_stake, form.max_loss_if_lose)
GrossAt(i) == RSub(BackProfit(form), RMul(CodeStake, RSub(TriggerOdds(i), One)))
WinAt(i) == IF GrossAt(i).n > 0 THEN RMul(GrossAt(i), RSub(One, Rate)) ELSE GrossAt(i)

\* C4: for 0 <= max_loss_if_lose < back_stake, the lose profit that
\* pnl_if_lose returns for the stake solver's lay stake is exactly
\* -max_loss_if_lose.
C4_RoundTrip ==
    ( /\ Len(plan) >= 1
      /\ RLt(Zero, form.back_stake)
      /\ RLe(Zero, form.max_loss_if_lose)
      /\ RLt(form.max_loss_if_lose, form.back_stake) )
        => /\ frame.lay_stake_ = CodeStake
           /\ frame.lose_pnl = RNeg(form.max_loss_if_lose)

\* C4 witness: a finished iteration with a positive loss cap below the stake and a
\* positive commission rate
C4_Witness ==
    /\ Len(plan) >= 1
    /\ form.max_loss_if_lose.n > 0
    /\ RLt(form.max_loss_if_lose, form.back_stake)
    /\ form.comm_pct.n > 0
    /\ frame.lose_pnl = RNeg(form.max_loss_if_lose)

\* C5 as stated: the row at trigger odds lay_odds is marked OK if and only
\* if x_min <= x_max, with the spec's x_min and x_max.
C5_AsStated ==
    RLt(Rate, One)
        => \A i \in Rows : (plan[i].Note = NoteOK) <=> RLe(XMin, XMax(i))

\* C5 amended: the row is marked OK if and only if the stake
\* x = back_stake - max_loss_if_lose is > 0 and the win profit at x and the
\* row's trigger odds, after commission on a positive result, is not below
\* min_profit_if_win by more than 1e-9.
C5_Feasible ==
    \A i \in Rows :
        (plan[i].Note = NoteOK)
            <=> ( /\ CodeStake.n > 0
                  /\ ~LtMinusEps(WinAt(i), form.min_profit_if_win) )

\* C5 witness: a row marked OK, at a positive commission rate, although the
\* spec's x_min exceeds its x_max
C5_Witness ==
    /\ form.comm_pct.n > 0
    /\ RLt(Rate, One)
    /\ \E i \in Rows : plan[i].Note = NoteOK /\ RLt(XMax(i), XMin)

\* C6 as stated: every row marked OK shows the recommended stake, and at
\* that stake and the row's trigger odds the win profit is >=
\* min_profit_if_win and the lose profit is >= -max_loss_if_lose; a row
\* where either bound fails is marked infeasible and carries no stake.
C6_AsStated ==
    \A i \in Rows :
        LET x == lay_stake_for_target_loss_when_lose(
                     form.back_stake, form.max_loss_if_lose)
            win == pnl_if_win(form.back_stake, form.back_odds, x,
                              TriggerOdds(i), Rate)
            lose == pnl_if_lose(form.back_stake, x, Rate)
            inBounds == /\ RLe(form.min_profit_if_win, win)
                        /\ RLe(RNeg(form.max_loss_if_lose), lose)
        IN  /\ plan[i].Note = NoteOK
                => inBounds /\ plan[i].Banca_consigliata = Fmt2(x)
            /\ ~inBounds
                => plan[i].Note # NoteOK /\ plan[i].Banca_consigliata = Dash

\* C6 amended: the same with the code's tolerance: in every row marked OK
\* the win profit is >= min_profit_if_win - 1e-9 and the lose profit is >=
\* -max_loss_if_lose - 1e-9; a row where either bound fails by more than
\* 1e-9 is marked infeasible and carries no stake.
C6_NoOutOfBoundStake ==
    \A i \in Rows :
        LET x == lay_stake_for_target_loss_when_lose(
                     form.back_stake, form.max_loss_if_lose)
            win == pnl_if_win(form.back_stake, form.back_odds, x,
                              TriggerOdds(i), Rate)
            lose == pnl_if_lose(form.back_stake, x, Rate)
            inBounds == /\ ~LtMinusEps(win, form.min_profit_if_win)
                        /\ ~LtMinusEps(lose, RNeg(form.max_loss_if_lose))
        IN  /\ plan[i].Note = NoteOK
                => inBounds /\ plan[i].Banca_consigliata = Fmt2(x)
            /\ ~inBounds
                => plan[i].Note # NoteOK /\ plan[i].Banca_consigliata = Dash

\* C6 witness: a plan with a row marked OK and a row marked infeasible for its profit
C6_Witness ==
    /\ \E i \in Rows : plan[i].Note = NoteOK
    /\ \E i \in Rows :
           /\ plan[i].Note.text
                 = "Impossibile (profitto minimo troppo alto o stop troppo aggressivo)."
           /\ plan[i].Banca_consigliata = Dash

\* C7 as stated: when max_loss_if_lose >= back_stake and back_stake*
\* (back_odds - 1) >= min_profit_if_win, the row is feasible with a
\* recommended lay stake of 0.
C7_ZeroStake ==
    \A i \in Rows :
        ( /\ RLe(form.back_stake, form.max_loss_if_lose)
          /\ RLe(form.min_profit_if_win, BackProfit(form)) )
            => /\ plan[i].Note = NoteOK
               /\ plan[i].Banca_consigliata = Fmt2(Zero)

\* C10: the row labelled "+s%" is evaluated at trigger_odds =
\* back_odds*(1 + s/100); its "Quota stop" is that value rounded to 2
\* decimals, and its win profit is computed at the unrounded value.
C10_TriggerOdds ==
    /\ \A i \in Rows :
           /\ plan[i].Stop = <<"+", StepOf(i), "%">>
           /\ plan[i].Quota_stop = Round2(TriggerOdds(i))
           /\ plan[i].Note = NoteOK
                 => plan[i].Esito_se_VINCI = FmtSigned2(WinAt(i))
    /\ Len(plan) >= 1
          => /\ frame.quota_stop = TriggerOdds(Len(plan))
             /\ CodeStake.n > 0 => frame.win_pnl = WinAt(Len(plan))

\* C10 witness: a row marked OK whose displayed odds differ from the trigger odds and
\* whose win profit would differ at the displayed odds
C10_Witness ==
    /\ Len(plan) >= 1
    /\ plan[Len(plan)].Note = NoteOK
    /\ plan[Len(plan)].Quota_stop # TriggerOdds(Len(plan))
    /\ frame.win_pnl # pnl_if_win(form.back_stake, form.back_odds, CodeStake,
                                  plan[Len(plan)].Quota_stop, Rate)

(***************************************************************************)
(* Claims about the shape of the ladder, checked under Spec.               *)
(***************************************************************************)
\* the single row of make_stop_plan called with stop_steps = [s]
RowAlone(s) ==
    StopIter(form.back_stake, form.back_odds, Rate, form.max_loss_if_lose,
             form.min_profit_if_win, s, NoFrame).row

\* C11: make_stop_plan returns one row per entry of stop_steps, in the
\* order of the list; the row of a percentage is the row the function gives
\* when that percentage is the only entry, whatever precedes or follows it,
\* an infeasible row included.
C11_RowPerStep ==
    /\ Len(plan) <= Len(form.stop_steps)
    /\ pc \in {"returned", "done"} => Len(plan) = Len(form.stop_steps)
    /\ \A i \in Rows :
           /\ plan[i].Stop = StopLabel(StepOf(i))
           /\ plan[i] = RowAlone(StepOf(i))

\* C11 witness: a returned plan for [50, 25] whose first row is infeasible
\* and whose second row is marked OK
C11_Witness ==
    /\ pc = "returned"
    /\ form.stop_steps = <<50, 25>>
    /\ plan[1].Note # NoteOK
    /\ plan[2].Note = NoteOK

\* a cell holding a formatted amount
Populated(cell) == DOMAIN cell = {"sign", "cents"}

\* C12: every row is either fully populated (stake, win outcome and lose
\* outcome all present, Note "OK") or explicitly infeasible (the three cells
\* all the placeholder, Note a non-empty reason other than "OK"); no row
\* mixes the two.
C12_NoPartialRow ==
    \A i \in Rows :
        \/ /\ plan[i].Note = NoteOK
           /\ Populated(plan[i].Banca_consigliata)
           /\ Populated(plan[i].Esito_se_VINCI)
           /\ Populated(plan[i].Esito_se_PERDI)
        \/ /\ plan[i].Note.text \notin {"OK", ""}
           /\ plan[i].Banca_consigliata = Dash
           /\ plan[i].Esito_se_VINCI = Dash
           /\ plan[i].Esito_se_PERDI = Dash

\* C12 witness: a returned plan holding a fully populated row and a row of
\* placeholders
C12_Witness ==
    /\ pc = "returned"
    /\ \E i \in Rows :
           /\ plan[i].Note = NoteOK
           /\ Populated(plan[i].Esito_se_PERDI)
    /\ \E i \in Rows :
           /\ plan[i].Note # NoteOK
           /\ plan[i].Esito_se_VINCI = Dash

(***************************************************************************)
(* Claims about the live exit block, checked under Spec.                   *)
(***************************************************************************)
\* back_stake*back_odds/(lay_odds_now - commission), written out
GreenUpStake == RDiv(RMul(form.back_stake, form.back_odds), RSub(live.live_odds, Rate))

\* the win result before commission at the stake back_stake -
\* max_loss_if_lose and the live odds, written out
LiveGross == RSub(BackProfit(form), RMul(CodeStake, RSub(live.live_odds, One)))

\* C13 as stated: the exit lays back_stake*back_odds/(lay_odds_now -
\* commission), whatever max_loss_if_lose and min_profit_if_win are, and
\* shows a win outcome equal to the lose outcome.
C13_AsStated ==
    (live # NoLive /\ RLt(Rate, One))
        => /\ live.shown = "card"
           /\ live.lay_stake_ = GreenUpStake
           /\ live.vinci = live.perdi

\* C13 amended: the exit lays max(0, back_stake - max_loss_if_lose), which
\* depends on max_loss_if_lose and neither on the live odds nor on the
\* commission; when that stake is <= 0 a warning is shown and no outcome;
\* otherwise the lose outcome is exactly -max_loss_if_lose and the win
\* outcome is back_stake*(back_odds - 1) - stake*(live_odds - 1), less the
\* commission when positive.
C13_LiveExit ==
    live # NoLive
        => /\ live.lay_stake_ = IF CodeStake.n > 0 THEN CodeStake ELSE Zero
           /\ (live.shown = "warning") <=> (CodeStake.n <= 0)
           /\ (live.shown = "card") <=> (CodeStake.n > 0)
           /\ live.shown = "card"
                 => /\ live.lose_p = RNeg(form.max_loss_if_lose)
                    /\ live.win_p = IF LiveGross.n > 0
                                    THEN RMul(LiveGross, RSub(One, Rate))
                                    ELSE LiveGross
                    /\ live.banca = Fmt2(CodeStake)
                    /\ live.vinci = FmtSigned2(live.win_p)
                    /\ live.perdi = FmtSigned2(live.lose_p)

\* C13 witness: an exit card, with a positive loss cap, whose stake is not
\* the equal-profit stake and whose two outcomes differ
C13_Witness ==
    /\ live # NoLive
    /\ live.shown = "card"
    /\ form.max_loss_if_lose.n > 0
    /\ RLt(Rate, One)
    /\ live.lay_stake_ # GreenUpStake
    /\ live.vinci # live.perdi

\* the exit card of the position 100 at 1.90, 5% commission, no loss
\* allowed, at live lay odds 2.50
ScenarioA ==
    /\ live # NoLive
    /\ form.back_stake = Num(100) /\ form.back_odds = Rat(190, 100)
    /\ form.comm_pct = Num(5) /\ form.max_loss_if_lose = Zero
    /\ live.live_odds = Rat(250, 100)

\* C14 as stated: in that scenario the stake shown is 105.26, the lose
\* outcome 0.00 and the win outcome -67.89.
C14_AsStated ==
    ScenarioA
        => /\ live.shown = "card"
           /\ live.banca = [sign |-> "", cents |-> 10526]
           /\ live.perdi.cents = 0
           /\ live.vinci = [sign |-> "-", cents |-> 6789]

\* C14 amended: in that scenario the stake is 100 (shown 100.00), the lose
\* outcome is 0 (shown +0.00) and the win outcome is 100*0.90 - 100*1.50 =
\* -60 (shown -60.00).
C14_ScenarioA ==
    ScenarioA
        => /\ live.shown = "card"
           /\ live.lay_stake_ = Num(100)
           /\ live.banca = [sign |-> "", cents |-> 10000]
           /\ live.lose_p = Zero
           /\ live.perdi = [sign |-> "+", cents |-> 0]
           /\ live.win_p = Num(-60)
           /\ live.vinci = [sign |-> "-", cents |-> 6000]

\* C14 witness: the exit card of the scenario has been computed
C14_Witness == ScenarioA /\ live.shown = "card" /\ live.liab = Num(150)

(***************************************************************************)
(* The worked ladder row, checked under Spec.                              *)
(***************************************************************************)
\* row i is the +25% row of the position 10 at 1.70, 5% commission, loss
\* cap 4, profit floor 1 (trigger odds 2.125)
ScenarioB(i) ==
    /\ form.back_stake = Num(10) /\ form.back_odds = Rat(170, 100)
    /\ form.comm_pct = Num(5) /\ form.max_loss_if_lose = Num(4)
    /\ form.min_profit_if_win = One
    /\ StepOf(i) = 25

\* what a row tells beyond its label and odds
Carried(i) ==
    {plan[i].Banca_consigliata, plan[i].Esito_se_VINCI, plan[i].Esito_se_PERDI,
     plan[i].Note.hint}

\* C15 as stated: that row is infeasible and reports both bound values,
\* x_min = 6.32 and x_max = 5.33.
C15_AsStated ==
    \A i \in Rows :
        ScenarioB(i)
            => /\ plan[i].Note # NoteOK
               /\ Fmt2(XMin) \in Carried(i)
               /\ Fmt2(XMax(i)) \in Carried(i)

\* C15 amended: that row is infeasible; its cells are placeholders and its
\* note names the profit floor and carries one value, the largest trigger
\* odds that would keep the floor, 1.99; neither x_min = 6.32 nor x_max =
\* 5.33 is reported.
C15_ScenarioB ==
    \A i \in Rows :
        ScenarioB(i)
            => /\ TriggerOdds(i) = Rat(2125, 1000)
               /\ Fmt2(XMin).cents = 632 /\ Fmt2(XMax(i)).cents = 533
               /\ plan[i].Note.text
                     = "Impossibile (profitto minimo troppo alto o stop troppo aggressivo)."
               /\ plan[i].Note.hint = [sign |-> "", cents |-> 199]
               /\ plan[i].Banca_consigliata = Dash
               /\ plan[i].Esito_se_VINCI = Dash
               /\ plan[i].Esito_se_PERDI = Dash
               /\ Fmt2(XMin) \notin Carried(i)
               /\ Fmt2(XMax(i)) \notin Carried(i)

\* C15 witness: the +25% row of the scenario has been appended, after a
\* win profit of 0.2375 was found below the floor
C15_Witness ==
    /\ Len(plan) >= 1
    /\ ScenarioB(Len(plan))
    /\ frame.win_pnl = Rat(2375, 10000)
    /\ plan[Len(plan)].Note # NoteOK

(***************************************************************************)
(* Further claims about pnl_if_win and pnl_if_lose, checked under SpecFn.  *)
(***************************************************************************)
\* C16: for two lay stakes a < b, everything else the same, a commission in
\* [0, 1) and lay odds > 1, the win profit at b is strictly below the win
\* profit at a and the lose profit at b strictly above the lose profit at
\* a, also where the sign changes between the two.
C16_Monotone ==
    ( /\ called = "pnl_at_two_stakes"
      /\ RLt(args.lay_stake_, ret.b)
      /\ InUnit(args.comm)
      /\ RLt(One, args.lay_odds_) )
        => /\ RLt(ret.win_b, ret.win_a)
           /\ RLt(ret.lose_a, ret.lose_b)

\* C16 witness: two stakes, at a positive commission, between which the
\* win profit turns from positive to negative and the lose profit from
\* negative to positive
C16_Witness ==
    /\ called = "pnl_at_two_stakes"
    /\ RLt(args.lay_stake_, ret.b)
    /\ RLt(Zero, args.comm) /\ RLt(args.comm, One)
    /\ ret.win_a.n > 0 /\ ret.win_b.n < 0
    /\ ret.lose_a.n < 0 /\ ret.lose_b.n > 0

\* -back_stake + lay_stake, written out
LoseGross(a) == RSub(a.lay_stake_, a.back_stake)

\* r is gross with the commission c charged on net winnings only
NetOfCommission(gross, r, c) ==
    /\ gross.n <= 0 => r = gross
    /\ gross.n > 0 => r = RMul(gross, RSub(One, c))
    /\ InUnit(c)
          => /\ (r.n > 0) <=> (gross.n > 0)
             /\ (r.n < 0) <=> (gross.n < 0)
             /\ gross.n < 0 => RLe(gross, r)

\* C17: in pnl_if_win and in pnl_if_lose a pre-commission result <= 0 is
\* returned unchanged for every commission and a result > 0 is returned
\* times (1 - commission); for a commission in [0, 1) the commission never
\* changes the sign of a result and never makes a loss larger.
C17_CommissionOnWinnings ==
    /\ called = "pnl_if_win" => NetOfCommission(WinGross(args), ret, args.comm)
    /\ called = "pnl_if_lose" => NetOfCommission(LoseGross(args), ret, args.comm)

\* C17 witness: pnl_if_win called at a positive commission with a negative
\* pre-commission result, which it returned unchanged
C17_Witness ==
    /\ called = "pnl_if_win"
    /\ RLt(Zero, args.comm) /\ RLt(args.comm, One)
    /\ WinGross(args).n < 0
    /\ ret = WinGross(args)

(***************************************************************************)
(* Totality of make_stop_plan, checked under Spec.                         *)
(***************************************************************************)
RowKeys ==
    {"Stop", "Quota_stop", "Banca_consigliata", "Esito_se_VINCI",
     "Esito_se_PERDI", "Note"}

\* C18: for all numeric inputs, those out of range included (a commission
\* of 100% or more, max_loss_if_lose >= back_stake, a min_profit_if_win
\* above what is attainable, trigger odds for which the largest admissible
\* lay odds are <= 1.01), make_stop_plan raises nothing, has rows left to
\* build or returns, and returns a row with all six fields for every
\* percentage.
C18_Total ==
    /\ pc # "raised"
    /\ pc = "loop" => Len(plan) <= Len(form.stop_steps)
    /\ \A i \in Rows : DOMAIN plan[i] = RowKeys
    /\ pc \in {"returned", "done"}
          => /\ Len(plan) = Len(form.stop_steps)
             /\ \A i \in Rows : plan[i].Stop = StopLabel(StepOf(i))

\* C18 witness: a plan returned for a commission of 100% or more, a
\* positive lay stake and a positive profit floor, where the largest
\* admissible lay odds were <= 1.01 and the rows carry no hint
C18_Witness ==
    /\ pc = "returned"
    /\ RLe(One, Rate)
    /\ CodeStake.n > 0
    /\ form.min_profit_if_win.n > 0
    /\ frame.max_lay = None
    /\ \A i \in Rows : plan[i].Note = NoteProfit(None)

(***************************************************************************)
(* The third infeasibility check of the loop, checked under Spec.          *)
(***************************************************************************)
\* C20: for a loss cap max_loss_if_lose >= 0 (the widget's min_value), the
\* check of the lose profit against the loss cap never fires:
\* whenever the lay stake is > 0 (max_loss_if_lose < back_stake) the lose
\* profit is exactly -max_loss_if_lose, for every commission, so no row
\* carries "Impossibile (perdita se perdi oltre max)." and every infeasible
\* row comes from a stake <= 0 or from a win profit below min_profit_if_win.
C20_LossCheckUnreachable ==
    /\ RLe(Zero, form.max_loss_if_lose)
    /\ \A i \in Rows : plan[i].Note # NoteLoss
    /\ (Len(plan) >= 1 /\ RLt(form.max_loss_if_lose, form.back_stake))
          => /\ RLt(Zero, frame.lay_stake_)
             /\ frame.lose_pnl = RNeg(form.max_loss_if_lose)
             /\ ~LossOverMax(frame.lose_pnl, form.max_loss_if_lose)
    /\ \A i \in Rows :
           plan[i].Note # NoteOK
               => \/ /\ CodeStake.n <= 0
                     /\ plan[i].Note = NoteNoStake
                  \/ /\ CodeStake.n > 0
                     /\ LtMinusEps(WinAt(i), form.min_profit_if_win)
                     /\ plan[i].Note.text
                           = "Impossibile (profitto minimo troppo alto o stop troppo aggressivo)."

\* C20 witness: a returned plan, at a positive commission and a positive
\* lay stake, with a row that passed the first two checks and was marked OK
\* after a lose profit of exactly -max_loss_if_lose
C20_Witness ==
    /\ pc = "returned"
    /\ form.comm_pct.n > 0
    /\ form.max_loss_if_lose.n > 0
    /\ RLt(Zero, frame.lay_stake_)
    /\ frame.lose_pnl = RNeg(form.max_loss_if_lose)
    /\ plan[Len(plan)].Note = NoteOK

(***************************************************************************)
(* The contract of get_odds_totals, checked under SpecOdds.                *)
(***************************************************************************)
\* C19: get_odds_totals always returns a pair (events, meta) and raises
\* nothing; events is non-empty only if meta.ok is True; meta.ok is True
\* exactly when the request succeeded, the status is 200 and the decoded
\* body is a list; after a request exception, a status other than 200 or a
\* body that is not a list it returns no events, ok False and a non-empty
\* message.
C19_OddsContract ==
    /\ fetch.pc # "raised"
    /\ fetch.pc = "returned"
          => LET events == fetch.ret.events
                 meta == fetch.ret.meta
                 good == /\ fetch.r # None
                         /\ fetch.r.status_code = StatusCode(200)
                         /\ fetch.r.body.kind = "list"
             IN  /\ DOMAIN fetch.ret = {"events", "meta"}
                 /\ Len(events) > 0 => meta.ok
                 /\ meta.ok <=> good
                 /\ good => events = fetch.r.body.items
                 /\ ~good => /\ events = <<>>
                             /\ ~meta.ok
                             /\ meta.message # None
                             /\ meta.message.text # ""

\* C19 witness: a response with status 200 whose body was not JSON has been
\* answered with no events, ok False and the not-a-list message
C19_Witness ==
    /\ fetch.pc = "returned"
    /\ fetch.r # None
    /\ fetch.r.status_code = StatusCode(200)
    /\ fetch.r.body.kind = "invalid"
    /\ fetch.ret.events = <<>>
    /\ ~fetch.ret.meta.ok
    /\ fetch.ret.meta.message.text = "Unexpected response format (not a list)."

(***************************************************************************)
(* Feasibility along the ladder, checked under Spec.                       *)
(***************************************************************************)
\* C21: for a commission in [0, 1) and back odds > 1, if the row of a
\* percentage is infeasible then the row of every larger percentage of the
\* same plan is infeasible too; the rows marked OK are exactly the rows up
\* to some threshold percentage.
C21_MonotoneFeasibility ==
    (InUnit(Rate) /\ RLt(One, form.back_odds))
        => /\ \A i, j \in Rows :
                  (StepOf(i) < StepOf(j) /\ plan[i].Note # NoteOK)
                      => plan[j].Note # NoteOK
           /\ \E t \in {0} \cup {StepOf(i) : i \in Rows} :
                  \A i \in Rows : (plan[i].Note = NoteOK) <=> (StepOf(i) <= t)

\* C21 witness: a returned plan, at a positive commission, in which a row
\* is marked OK and the row of a larger percentage is infeasible
C21_Witness ==
    /\ pc = "returned"
    /\ form.comm_pct.n > 0 /\ InUnit(Rate)
    /\ \E i, j \in Rows :
           /\ StepOf(i) < StepOf(j)
           /\ plan[i].Note = NoteOK
           /\ plan[j].Note # NoteOK

(***************************************************************************)
(* The remedy hint of an infeasible row, checked under Spec.               *)
(***************************************************************************)
ProfitText == "Impossibile (profitto minimo troppo alto o stop troppo aggressivo)."

\* the last row appended is infeasible for its win profit and its note
\* carries the sentence "Prova quota stop <= max_lay ..."
HintedRow ==
    /\ Len(plan) >= 1
    /\ plan[Len(plan)].Note.text = ProfitText
    /\ plan[Len(plan)].Note.hint # None

\* lay odds at and below m at which the evaluator is tried
OddsUpTo(m) == {m, RSub(m, Rat(1, 100)), RSub(m, Rat(1, 4)), Rat(101, 100)}

\* C22: when a row is infeasible because its win profit is below
\* min_profit_if_win and its note suggests "quota stop <= max_lay", then
\* pnl_if_win with the same lay stake and commission gives exactly
\* min_profit_if_win at lay odds max_lay and at least min_profit_if_win at
\* lay odds below max_lay, and max_lay is strictly below the row's trigger
\* odds (commission in [0, 1)).
C22_HintConsistent ==
    (HintedRow /\ InUnit(Rate))
        => LET m == frame.max_lay
               x == frame.lay_stake_
               WinOf(q) == pnl_if_win(form.back_stake, form.back_odds, x, q, Rate)
           IN  /\ IsNum(m)
               /\ plan[Len(plan)].Note.hint = Fmt2(m)
               /\ x = CodeStake
               /\ WinOf(m) = form.min_profit_if_win
               /\ \A q \in OddsUpTo(m) : RLe(form.min_profit_if_win, WinOf(q))
               /\ RLt(m, TriggerOdds(Len(plan)))

\* C22 witness: a row with a hint, at a positive commission and a positive
\* profit floor, whose max_lay is not a whole number of hundredths
C22_Witness ==
    /\ HintedRow
    /\ form.comm_pct.n > 0 /\ InUnit(Rate)
    /\ form.min_profit_if_win.n > 0
    /\ Round2(frame.max_lay) # frame.max_lay

(***************************************************************************)
(* Where the analysis result is drawn, checked under SpecUi.               *)
(***************************************************************************)
DayShown == ui.day # NoResult
ManualShown == ui.manual # NoResult

\* the run pressed "Trova partite" with a league selected and reached the
\* end of the script
TrovaDone == ui.run = "trova" /\ ui.leagues > 0 /\ ui.end = "end"

\* the run completed an analysis started in the manual tab
ManualDone == ui.run = "manual" /\ ui.end = "end"

\* the stored result is what the day tab, the manual tab shows
ResultInDay == ui.result # NoResult /\ ui.day = ui.result
ResultInManual == ui.result # NoResult /\ ui.manual = ui.result

====
